---------------------------- MODULE Spec2Model ----------------------------
(***************************************************************************)
(* Model of the clawrank-scanner detection and scoring engine:             *)
(*   - scorer.js    : calculateScore, getGrade                             *)
(*   - patterns.js  : PATTERNS, isDocFile, getEffectiveSeverity,           *)
(*                    KNOWN_SAFE_BINARIES, KNOWN_SAFE_DOMAINS              *)
(*   - analyzer.js  : analyzeSkill, analyzeFile, findMatches,              *)
(*                    getLineNumber                                        *)
(*                                                                         *)
(* Text is modelled at the granularity of lexical fragments: a file        *)
(* content is a sequence of fragments in which the fragment NL is the      *)
(* newline character; a match index is a position in that sequence.        *)
(***************************************************************************)
EXTENDS Integers, Sequences, FiniteSets, TLC

VARIABLES
    filename,      \* analyzeFile's first argument: the relative path
    content,       \* analyzeFile's second argument: the file content
    pc,            \* position of the caller: "read" or "walk", "analyzed", "scored";
                   \* "score"; "grade"; "classify", "classified"
    findings,      \* the finding list handed to calculateScore
    scoreResult,   \* the object calculateScore returned last
    gradeIn,       \* getGrade's argument
    gradeOut,      \* getGrade's result
    fileClass,     \* what isDocFile and isCodeFile answered for `filename`
    skillDir,      \* the directory tree at skillPath, as the file system holds it
    analysis,      \* the object analyzeSkill returned
    files,         \* analyzeSkill's local array `files`: the relative paths read
    consoleErrors, \* the relative paths console.error was called for
    previous,      \* what the scan before the last one returned
    results,       \* generateStatistics' argument: the scored results of many skills
    stats          \* the object generateStatistics returned

vars == <<filename, content, pc, findings, scoreResult, gradeIn, gradeOut,
          fileClass, skillDir, analysis, files, consoleErrors, previous,
          results, stats>>

---------------------------------------------------------------------------
(* Bounds of the model *)

\* longest finding list handed to calculateScore in SpecScore
MaxFindings == 6

\* most lines of a file content in Spec
MaxLines == 3

\* most entries of a directory of the scanned skill, next to its subdirectory
MaxEntries == 2

\* most scored results handed to generateStatistics
MaxResults == 3

---------------------------------------------------------------------------
(* Generic helpers *)

\* Math.max
Max(a, b) == IF a > b THEN a ELSE b

\* the elements of a sequence
Range(s) == {s[i] : i \in 1..Len(s)}

\* Array.prototype.filter(...).length
RECURSIVE CountIf(_, _)
CountIf(s, sev) ==
    IF s = <<>> THEN 0
    ELSE (IF Head(s).severity = sev THEN 1 ELSE 0) + CountIf(Tail(s), sev)

\* all sequences over S of length at most n
RECURSIVE SeqsUpTo(_, _)
SeqsUpTo(S, n) ==
    IF n = 0 THEN {<<>>}
    ELSE LET shorter == SeqsUpTo(S, n - 1)
         IN  shorter \cup {Append(s, x) : s \in shorter, x \in S}

---------------------------------------------------------------------------
(* scorer.js *)

\* the keys of severityCounts, in insertion order
SeverityNames == <<"CRITICAL", "HIGH", "MEDIUM", "LOW">>

\* a plausible slip: LOW findings deduct too, and MEDIUM deducts as HIGH
SEVERITY_DEDUCTIONS_Shifted ==
    [s \in Range(SeverityNames) |->
        CASE s = "CRITICAL" -> 30
          [] s = "HIGH"     -> 15
          [] s = "MEDIUM"   -> 15
          [] s = "LOW"      -> 5]

\* const SEVERITY_DEDUCTIONS = { CRITICAL: 30, HIGH: 15, MEDIUM: 5, LOW: 0 }
SEVERITY_DEDUCTIONS ==
    [s \in Range(SeverityNames) |->
        CASE s = "CRITICAL" -> 30
          [] s = "HIGH"     -> 15
          [] s = "MEDIUM"   -> 5
          [] s = "LOW"      -> 0]

\* const GRADE_THRESHOLDS = { A: 90, B: 80, C: 70, D: 60, F: 0 }
GRADE_THRESHOLDS ==
    [g \in {"A", "B", "C", "D", "F"} |->
        CASE g = "A" -> 90
          [] g = "B" -> 80
          [] g = "C" -> 70
          [] g = "D" -> 60
          [] g = "F" -> 0]

\* const COLOR_MAP
COLOR_MAP ==
    [g \in {"A", "B", "C", "D", "F"} |->
        CASE g = "A" -> "green"
          [] g = "B" -> "yellow"
          [] g = "C" -> "orange"
          [] g = "D" -> "orange"
          [] g = "F" -> "red"]

\* `let score = 100`
StartScore == 100

\* a plausible slip: `>` instead of `>=` at the thresholds
getGradeStrict(score) ==
    IF score > GRADE_THRESHOLDS["A"] THEN "A"
    ELSE IF score > GRADE_THRESHOLDS["B"] THEN "B"
    ELSE IF score > GRADE_THRESHOLDS["C"] THEN "C"
    ELSE IF score > GRADE_THRESHOLDS["D"] THEN "D"
    ELSE "F"

\* function getGrade(score)
getGrade(score) ==
    IF score >= GRADE_THRESHOLDS["A"] THEN "A"
    ELSE IF score >= GRADE_THRESHOLDS["B"] THEN "B"
    ELSE IF score >= GRADE_THRESHOLDS["C"] THEN "C"
    ELSE IF score >= GRADE_THRESHOLDS["D"] THEN "D"
    ELSE "F"

\* a plausible slip: a finding with a severity outside the four names is
\* counted as LOW
severityCountsOfDefaultLow(fs) ==
    [s \in Range(SeverityNames) |->
        IF s = "LOW"
        THEN Len(fs) - CountIf(fs, "CRITICAL") - CountIf(fs, "HIGH") - CountIf(fs, "MEDIUM")
        ELSE CountIf(fs, s)]

\* the first loop of calculateScore: only the four own keys are counted
severityCountsOf(fs) ==
    [s \in Range(SeverityNames) |-> CountIf(fs, s)]

\* a plausible slip: the deductions are added instead of subtracted
RECURSIVE ApplyDeductionsAdded(_, _, _)
ApplyDeductionsAdded(score, counts, i) ==
    IF i > Len(SeverityNames) THEN score
    ELSE ApplyDeductionsAdded(
             score + SEVERITY_DEDUCTIONS[SeverityNames[i]] * counts[SeverityNames[i]],
             counts, i + 1)

\* the second loop of calculateScore: score -= SEVERITY_DEDUCTIONS[severity] * count
RECURSIVE ApplyDeductions(_, _, _)
ApplyDeductions(score, counts, i) ==
    IF i > Len(SeverityNames) THEN score
    ELSE ApplyDeductions(
             score - SEVERITY_DEDUCTIONS[SeverityNames[i]] * counts[SeverityNames[i]],
             counts, i + 1)

\* a plausible slip: the floor is forgotten
FloorScoreMissing(score) == score

\* the floor at 0
FloorScore(score) == Max(0, score)

\* export function calculateScore(findings)
calculateScore(fs) ==
    LET severityCounts == severityCountsOf(fs)
        score          == FloorScore(ApplyDeductions(StartScore, severityCounts, 1))
        grade          == getGrade(score)
        present        == {s \in Range(SeverityNames) : severityCounts[s] > 0}
    IN  [score          |-> score,
         grade          |-> grade,
         color          |-> COLOR_MAP[grade],
         severityCounts |-> severityCounts,
         deductions     |-> [s \in present |->
                                [count      |-> severityCounts[s],
                                 perFinding |-> SEVERITY_DEDUCTIONS[s],
                                 total      |-> SEVERITY_DEDUCTIONS[s] * severityCounts[s]]],
         totalFindings  |-> Len(fs)]

---------------------------------------------------------------------------
(* patterns.js: the signature library *)

\* marks an absent optional field (docSeverityOverride, requiresCombination)
None == "none"

\* The entries of PATTERNS that the modelled fragments can match, in library
\* order.  nExpr is the length of the entry's `patterns` array.
PATTERNS ==
    << [id |-> "remote-code-download", severity |-> "CRITICAL", codeOnly |-> FALSE,
        dedup |-> FALSE, docSeverityOverride |-> None,
        requiresCombination |-> None, nExpr |-> 6],
       [id |-> "credential-exfiltration", severity |-> "CRITICAL", codeOnly |-> TRUE,
        dedup |-> FALSE, docSeverityOverride |-> None,
        requiresCombination |-> "network-activity", nExpr |-> 6],
       [id |-> "base64-obfuscation", severity |-> "CRITICAL", codeOnly |-> FALSE,
        dedup |-> FALSE, docSeverityOverride |-> "LOW",
        requiresCombination |-> None, nExpr |-> 6],
       [id |-> "eval-dangerous", severity |-> "CRITICAL", codeOnly |-> TRUE,
        dedup |-> FALSE, docSeverityOverride |-> None,
        requiresCombination |-> None, nExpr |-> 5],
       [id |-> "reverse-shell", severity |-> "CRITICAL", codeOnly |-> FALSE,
        dedup |-> FALSE, docSeverityOverride |-> None,
        requiresCombination |-> None, nExpr |-> 9],
       [id |-> "privilege-escalation", severity |-> "HIGH", codeOnly |-> FALSE,
        dedup |-> FALSE, docSeverityOverride |-> "MEDIUM",
        requiresCombination |-> None, nExpr |-> 4],
       [id |-> "network-activity", severity |-> "MEDIUM", codeOnly |-> FALSE,
        dedup |-> FALSE, docSeverityOverride |-> "LOW",
        requiresCombination |-> None, nExpr |-> 4],
       [id |-> "credential-reference", severity |-> "MEDIUM", codeOnly |-> FALSE,
        dedup |-> TRUE, docSeverityOverride |-> "LOW",
        requiresCombination |-> None, nExpr |-> 3],
       [id |-> "shell-exec", severity |-> "MEDIUM", codeOnly |-> FALSE,
        dedup |-> FALSE, docSeverityOverride |-> "LOW",
        requiresCombination |-> None, nExpr |-> 3],
       [id |-> "package-install", severity |-> "MEDIUM", codeOnly |-> FALSE,
        dedup |-> FALSE, docSeverityOverride |-> "LOW",
        requiresCombination |-> None, nExpr |-> 5] >>

\* the newline character
NL == "\n"

\* RegExp.prototype.exec at one fragment: does expression number k of the
\* signature `id` match the text of fragment `frag`?
\*   remote-code-download[2] /curl\s+.*\|\s*bash\b/gi
\*   credential-exfiltration[4] /curl\s+.*-H\s*['"]Authorization/gi
\*   base64-obfuscation[2]   /atob\s*\(.*eval/gi
\*   base64-obfuscation[5]   /atob\s*\(.*eval/gi
\*   eval-dangerous[2]       /eval\s*\(\s*input/gi
\*   reverse-shell[8]        /reverse.?shell/gi
\*   privilege-escalation[2] /setuid/gi
\*   network-activity[2]     /axios\.post\s*\(/gi
\*   credential-reference[1] /process\.env\.\w*(KEY|TOKEN|SECRET|PASSWORD)/gi
\*   credential-reference[3] /getenv\s*\(\s*['"]?\w*(KEY|TOKEN|SECRET|PASSWORD)/gi
\*   shell-exec[1]           /child_process/gi
\*   shell-exec[2]           /\bsubprocess\.\w+\s*\(/gi
\*   package-install[1]      /npm\s+install/gi
RegexMatches(id, k, frag) ==
    \/ id = "remote-code-download" /\ k = 2 /\ frag = "curl http://x | bash"
    \/ id = "credential-exfiltration" /\ k = 4 /\ frag = "curl -H 'Authorization"
    \/ id = "base64-obfuscation"   /\ k \in {2, 5} /\ frag = "atob(payload) eval"
    \/ id = "eval-dangerous"       /\ k = 2 /\ frag = "eval(input"
    \/ id = "reverse-shell"        /\ k = 8 /\ frag = "reverse-shell"
    \/ id = "privilege-escalation" /\ k = 2 /\ frag = "setuid"
    \/ id = "network-activity"     /\ k = 2 /\ frag = "axios.post("
    \/ id = "credential-reference" /\ k = 1 /\ frag = "process.env.API_KEY"
    \/ id = "credential-reference" /\ k = 3 /\ frag = "getenv('API_TOKEN"
    \/ id = "shell-exec"           /\ k = 1 /\ frag = "child_process"
    \/ id = "shell-exec"           /\ k = 2 /\ frag = "subprocess.run("
    \/ id = "package-install"      /\ k = 1 /\ frag = "npm install"

\* export const KNOWN_SAFE_BINARIES = new Set([...])
KNOWN_SAFE_BINARIES ==
    {"bird", "curl", "jq", "brew", "git", "npm", "node", "python", "python3",
     "pip", "pip3", "wget", "yt-dlp", "ffmpeg", "ffprobe", "grep", "sed", "awk",
     "cat", "echo", "ls", "find", "sort", "uniq", "wc", "head", "tail", "tr",
     "date", "mkdir", "cp", "mv", "rm", "chmod", "touch", "tee", "xargs"}

\* export const KNOWN_SAFE_DOMAINS = new Set([...])
KNOWN_SAFE_DOMAINS ==
    {"reddit.com", "www.reddit.com", "oauth.reddit.com", "api.reddit.com",
     "openai.com", "api.openai.com",
     "brave.com", "api.search.brave.com",
     "anthropic.com", "api.anthropic.com",
     "github.com", "api.github.com", "raw.githubusercontent.com",
     "googleapis.com", "www.googleapis.com",
     "x.com", "api.x.com", "api.twitter.com", "twitter.com",
     "youtube.com", "www.youtube.com",
     "pypi.org", "files.pythonhosted.org",
     "npmjs.org", "registry.npmjs.org", "www.npmjs.com",
     "localhost", "127.0.0.1"}

\* const CODE_EXTENSIONS
CODE_EXTENSIONS ==
    {".js", ".ts", ".py", ".sh", ".bash", ".rb", ".go", ".rs", ".java", ".php",
     ".pl", ".ps1", ".bat", ".cmd"}

\* const DOC_EXTENSIONS
DOC_EXTENSIONS == {".md", ".txt", ".rst", ".adoc", ".html", ".htm"}

\* const DOC_DIRS, each without its trailing slash
DOC_DIRS == {"docs", "doc", "plans", "references", "examples", "example", "variants"}

\* the literal array in isDocFile
DOC_BASENAMES == {"license", "changelog", "changes", "authors", "contributors", "todo"}

---------------------------------------------------------------------------
(* patterns.js: file classification *)

\* A path is a sequence of segments (the pieces between "/"); a segment is
\* the sequence of its pieces between ".".  "docs/run.sh" is
\* << <<"docs">>, <<"run", "sh">> >>.

\* String.prototype.toLowerCase on the names that occur in the modelled paths
toLowerCase(s) ==
    CASE s = "LICENSE"   -> "license"
      [] s = "Changelog" -> "changelog"
      [] s = "SKILL"     -> "skill"
      [] s = "README"    -> "readme"
      [] s = "Docs"      -> "docs"
      [] s = "MD"        -> "md"
      [] OTHER           -> s

\* '.' + filename.split('.').pop().toLowerCase()
\* The last piece after a "." is the last piece of the last segment when that
\* segment has a dot, the whole name when the path has no dot at all, and
\* otherwise a text that holds a "/" (written "/" here: no extension has one).
dotExt(path) ==
    LET last == path[Len(path)]
    IN  IF Len(last) >= 2 THEN "." \o toLowerCase(last[Len(last)])
        ELSE IF Len(path) = 1 THEN "." \o toLowerCase(last[1])
        ELSE "/"

\* a plausible slip: only the extension is looked at
isDocFileExtensionOnly(path) == dotExt(path) \in DOC_EXTENSIONS

\* export function isDocFile(filename)
isDocFile(path) ==
    \/ dotExt(path) \in DOC_EXTENSIONS
    \/ \E i \in 1..(Len(path) - 1) :
          Len(path[i]) = 1 /\ toLowerCase(path[i][1]) \in DOC_DIRS
    \/ LET last == path[Len(path)]
       IN  Len(last) = 1 /\ toLowerCase(last[1]) \in DOC_BASENAMES

\* export function isCodeFile(filename)
isCodeFile(path) == dotExt(path) \in CODE_EXTENSIONS

\* a plausible slip: the codeOnly test is dropped
getEffectiveSeverityNoCodeOnly(pattern, path) ==
    IF pattern.docSeverityOverride # None /\ isDocFile(path)
    THEN pattern.docSeverityOverride
    ELSE pattern.severity

\* a plausible slip: every file that is not a code file is taken as
\* documentation
getEffectiveSeverityNonCodeAsDoc(pattern, path) ==
    LET isDoc == ~isCodeFile(path)
    IN  IF pattern.codeOnly /\ isDoc THEN None
        ELSE IF pattern.docSeverityOverride # None /\ isDoc
             THEN pattern.docSeverityOverride
        ELSE pattern.severity

\* a plausible slip: the documentation override is never applied
getEffectiveSeverityBaseOnly(pattern, path) ==
    IF pattern.codeOnly /\ isDocFile(path) THEN None ELSE pattern.severity

\* export function getEffectiveSeverity(pattern, filename); null is None
getEffectiveSeverity(pattern, path) ==
    LET isDoc == isDocFile(path)
    IN  IF pattern.codeOnly /\ isDoc THEN None
        ELSE IF pattern.docSeverityOverride # None /\ isDoc
             THEN pattern.docSeverityOverride
        ELSE pattern.severity

---------------------------------------------------------------------------
(* analyzer.js *)

\* const MAX_FINDINGS_PER_PATTERN = 3
MAX_FINDINGS_PER_PATTERN == 3

\* content.split('\n'): the lines of a content
RECURSIVE splitLines(_)
splitLines(c) ==
    IF \A i \in 1..Len(c) : c[i] # NL THEN <<c>>
    ELSE LET first == CHOOSE i \in 1..Len(c) :
                          c[i] = NL /\ \A j \in 1..(i - 1) : c[j] # NL
         IN  <<SubSeq(c, 1, first - 1)>> \o splitLines(SubSeq(c, first + 1, Len(c)))

\* function getLineNumber(content, index):
\* content.substring(0, index).split('\n').length
getLineNumber(c, index) == Len(splitLines(SubSeq(c, 1, index)))

\* function findMatches(content, regex): every match of expression k of
\* signature id, left to right, with its 0-based index and its text
RECURSIVE findMatchesFrom(_, _, _, _)
findMatchesFrom(c, id, k, i) ==
    IF i > Len(c) THEN <<>>
    ELSE (IF RegexMatches(id, k, c[i])
          THEN <<[index |-> i - 1, text |-> c[i]]>>
          ELSE <<>>) \o findMatchesFrom(c, id, k, i + 1)

\* a plausible slip: the matches are collected from the end of the content
findMatchesBackwards(c, id, k) ==
    LET m == findMatchesFrom(c, id, k, 1)
    IN  [i \in 1..Len(m) |-> m[Len(m) + 1 - i]]

findMatches(c, id, k) == findMatchesFrom(c, id, k, 1)

\* the 100 of `substring(0, 100)`
SNIPPET_MAX == 100

\* fragments that are whitespace only
Blank == {"    "}

\* a word of 96 characters
LongWord ==
    "xxxxxxxxxxxxxxxxxxxxxxxxxxxxxxxxxxxxxxxxxxxxxxxxxxxxxxxxxxxxxxxxxxxxxxxxxxxxxxxxxxxxxxxxxxxxxxxx"

\* the first 86 characters of LongWord
LongWordCut ==
    "xxxxxxxxxxxxxxxxxxxxxxxxxxxxxxxxxxxxxxxxxxxxxxxxxxxxxxxxxxxxxxxxxxxxxxxxxxxxxxxxxxxxxx"

\* the number of characters of a fragment
fragChars(f) ==
    CASE f = "Does" -> 4
      [] f = "nothing." -> 8
      [] f = "subprocess.run(" -> 15
      [] f = "git" -> 3
      [] f = ")" -> 1
      [] f = "    " -> 4
      [] f = "./payload" -> 9
      [] f = "legit" -> 5
      [] f = "child_process" -> 13
      [] f = "process.env.API_KEY" -> 19
      [] f = "getenv('API_TOKEN" -> 17
      [] f = "')" -> 2
      [] f = "eval(input" -> 10
      [] f = "axios.post(" -> 11
      [] f = "api.github.com" -> 14
      [] f = "curl http://x | bash" -> 20
      [] f = "npm install" -> 11
      [] f = "some-pkg" -> 8
      [] f = "opens" -> 5
      [] f = "a" -> 1
      [] f = "reverse-shell" -> 13
      [] f = "find" -> 4
      [] f = "setuid" -> 6
      [] f = "binaries" -> 8
      [] f = "curl -H 'Authorization" -> 22
      [] f = "Bearer" -> 6
      [] f = "x'" -> 2
      [] f = "host" -> 4
      [] f = "atob(payload) eval" -> 18
      [] f = LongWord -> 96
      [] f = LongWordCut -> 86

\* String.prototype.trim: leading and trailing whitespace is dropped
RECURSIVE trimStart(_)
trimStart(line) ==
    IF line # <<>> /\ Head(line) \in Blank THEN trimStart(Tail(line)) ELSE line

RECURSIVE trimEnd(_)
trimEnd(line) ==
    IF line # <<>> /\ line[Len(line)] \in Blank
    THEN trimEnd(SubSeq(line, 1, Len(line) - 1))
    ELSE line

trim(line) == trimEnd(trimStart(line))

\* String.prototype.substring(0, n) on one fragment longer than n
fragPrefix(f, n) ==
    CASE f = LongWord /\ n = 86 -> LongWordCut

\* String.prototype.substring(0, n) on fragments joined by one space each: the
\* fragments that fit whole, then the first characters of the one that is cut
RECURSIVE substringTo(_, _)
substringTo(line, n) ==
    IF line = <<>> \/ n <= 0 THEN <<>>
    ELSE IF fragChars(Head(line)) <= n
         THEN <<Head(line)>> \o substringTo(Tail(line), n - fragChars(Head(line)) - 1)
         ELSE <<fragPrefix(Head(line), n)>>

\* a plausible slip: the trimmed line is not cut
trimSnippetUncut(line) == trim(line)

\* lineContent.trim().substring(0, 100)
trimSnippet(line) == substringTo(trim(line), SNIPPET_MAX)

\* a plausible slip: the dedup test is dropped from the two break conditions
capReachedNoDedup(pattern, count) == count >= MAX_FINDINGS_PER_PATTERN

\* the two break conditions of both loops of analyzeFile
capReached(pattern, count) ==
    \/ count >= MAX_FINDINGS_PER_PATTERN
    \/ (pattern.dedup /\ count >= 1)

\* a plausible slip: a CRITICAL match is pushed one step lower, as if the
\* binary named on its line had softened it
makeFindingSoftened(pattern, effectiveSeverity, path, c, match) ==
    LET lineNumber  == getLineNumber(c, match.index)
        lines       == splitLines(c)
        lineContent == IF lineNumber <= Len(lines) THEN lines[lineNumber] ELSE <<>>
    IN  [severity  |-> IF effectiveSeverity = "CRITICAL" THEN "HIGH"
                       ELSE effectiveSeverity,
         patternId |-> pattern.id,
         file      |-> path,
         line      |-> lineNumber,
         snippet   |-> trimSnippet(lineContent),
         matched   |-> match.text]

\* the object pushed by analyzeFile for one match
makeFinding(pattern, effectiveSeverity, path, c, match) ==
    LET lineNumber  == getLineNumber(c, match.index)
        lines       == splitLines(c)
        lineContent == IF lineNumber <= Len(lines) THEN lines[lineNumber] ELSE <<>>
    IN  [severity  |-> effectiveSeverity,
         patternId |-> pattern.id,
         file      |-> path,
         line      |-> lineNumber,
         snippet   |-> trimSnippet(lineContent),
         matched   |-> match.text]

\* `for (const match of matches)`: acc is the findings pushed so far for
\* this signature, so Len(acc) is patternCounts[pattern.id]
RECURSIVE scanMatches(_, _, _, _, _, _, _)
scanMatches(pattern, sev, path, c, matches, j, acc) ==
    IF j > Len(matches) \/ capReached(pattern, Len(acc)) THEN acc
    ELSE scanMatches(pattern, sev, path, c, matches, j + 1,
                     Append(acc, makeFinding(pattern, sev, path, c, matches[j])))

\* a plausible slip: the count is kept per expression instead of per signature
RECURSIVE scanRegexesPerExpression(_, _, _, _, _, _)
scanRegexesPerExpression(pattern, sev, path, c, k, acc) ==
    IF k > pattern.nExpr THEN acc
    ELSE scanRegexesPerExpression(pattern, sev, path, c, k + 1,
             acc \o scanMatches(pattern, sev, path, c,
                                findMatches(c, pattern.id, k), 1, <<>>))

\* `for (const regex of pattern.patterns)`
RECURSIVE scanRegexes(_, _, _, _, _, _)
scanRegexes(pattern, sev, path, c, k, acc) ==
    IF k > pattern.nExpr \/ capReached(pattern, Len(acc)) THEN acc
    ELSE scanRegexes(pattern, sev, path, c, k + 1,
                     scanMatches(pattern, sev, path, c,
                                 findMatches(c, pattern.id, k), 1, acc))

\* one iteration of `for (const pattern of PATTERNS)`
scanPattern(pattern, path, c) ==
    LET effectiveSeverity == getEffectiveSeverity(pattern, path)
    IN  IF effectiveSeverity = None THEN <<>>
        ELSE scanRegexes(pattern, effectiveSeverity, path, c, 1, <<>>)

RECURSIVE scanPatternsFrom(_, _, _)
scanPatternsFrom(p, path, c) ==
    IF p > Len(PATTERNS) THEN <<>>
    ELSE scanPattern(PATTERNS[p], path, c) \o scanPatternsFrom(p + 1, path, c)

\* a plausible slip: a match on a line that names a known-safe binary or
\* domain is dropped instead of reported
analyzeFileDroppingSafeLines(path, c) ==
    LET safe == KNOWN_SAFE_BINARIES \cup KNOWN_SAFE_DOMAINS
        Keep(f) == \A i \in 1..Len(f.snippet) : f.snippet[i] \notin safe
    IN  SelectSeq(scanPatternsFrom(1, path, c), Keep)

\* function analyzeFile(filename, content)
analyzeFile(path, c) == scanPatternsFrom(1, path, c)

---------------------------------------------------------------------------
(* analyzer.js: analyzeSkill *)

\* A directory entry is a record: name (a path segment), kind ("file",
\* "dir", or "other" for what is neither), and for a file or directory the
\* status of reading it ("ok" or the code of the error thrown); a file has a
\* content and a directory its entries in readdir order.

\* a plausible slip: node_modules is walked like any directory
skippedDirectoryVcsOnly(name) == name \in {<<"", "git">>, <<"", "svn">>}

\* entry.name === '.git' || entry.name === 'node_modules' || entry.name === '.svn'
skippedDirectory(name) ==
    name \in {<<"", "git">>, <<"node_modules">>, <<"", "svn">>}

\* entry.name === 'metadata.json', or one of the three lock files
skippedFile(name) ==
    name \in {<<"metadata", "json">>, <<"package-lock", "json">>,
              <<"yarn", "lock">>, <<"pnpm-lock", "yaml">>}

\* a plausible slip: `findings` and `files` are module-level arrays, so a
\* scan starts from what the scan before it collected
EmptyWalkKeepingArrays ==
    [files |-> files, findings |-> findings, consoleErrors |-> <<>>, threw |-> None]

\* the locals of analyzeSkill before the walk; threw is the error in flight
EmptyWalk == [files |-> <<>>, findings |-> <<>>, consoleErrors |-> <<>>, threw |-> None]

\* a plausible slip: a signature already reported for an earlier file of the
\* skill is not reported again
readFileCarryingCounts(entry, relativePath, acc) ==
    LET seen(f) == \E i \in 1..Len(acc.findings) :
                       acc.findings[i].patternId = f.patternId
        fresh(f) == ~seen(f)
    IN  IF entry.status = "ok"
        THEN [acc EXCEPT !.files = Append(@, relativePath),
                         !.findings = @ \o SelectSeq(analyzeFile(relativePath,
                                                                 entry.content), fresh)]
        ELSE IF entry.status # "EISDIR"
             THEN [acc EXCEPT !.consoleErrors = Append(@, relativePath)]
             ELSE acc

\* the body of the `try` around one file: read, record, analyse; a failed
\* read is caught and logged unless its code is EISDIR
readFile(entry, relativePath, acc) ==
    IF entry.status = "ok"
    THEN [acc EXCEPT !.files = Append(@, relativePath),
                     !.findings = @ \o analyzeFile(relativePath, entry.content)]
    ELSE IF entry.status # "EISDIR"
         THEN [acc EXCEPT !.consoleErrors = Append(@, relativePath)]
         ELSE acc

\* function readDirRecursive(dir, baseDir): fs.readdirSync throws for a
\* directory that cannot be listed; rel is path.relative(baseDir, dir)
RECURSIVE readDirRecursive(_, _, _)
RECURSIVE readEntries(_, _, _, _)
readDirRecursive(dir, rel, acc) ==
    IF dir.status # "ok" THEN [acc EXCEPT !.threw = dir.status]
    ELSE readEntries(dir.entries, 1, rel, acc)

\* `for (const entry of entries)`; an error in flight ends every loop
readEntries(entries, i, rel, acc) ==
    IF i > Len(entries) \/ acc.threw # None THEN acc
    ELSE LET entry        == entries[i]
             relativePath == Append(rel, entry.name)
         IN  IF entry.kind = "dir"
             THEN IF skippedDirectory(entry.name)
                  THEN readEntries(entries, i + 1, rel, acc)
                  ELSE readEntries(entries, i + 1, rel,
                                   readDirRecursive(entry, relativePath, acc))
             ELSE IF entry.kind = "file"
             THEN IF skippedFile(entry.name)
                  THEN readEntries(entries, i + 1, rel, acc)
                  ELSE readEntries(entries, i + 1, rel,
                                   readFile(entry, relativePath, acc))
             ELSE readEntries(entries, i + 1, rel, acc)

\* a plausible slip: the outer catch returns the empty result without the
\* error message
analyzeResultWithoutError(walk) ==
    IF walk.threw # None
    THEN [skillPath |-> "skill", filesScanned |-> 0, findings |-> <<>>]
    ELSE [skillPath |-> "skill", filesScanned |-> Len(walk.files),
          findings  |-> walk.findings]

\* the two `return` statements of analyzeSkill (the timestamp is left out)
analyzeResult(walk) ==
    IF walk.threw # None
    THEN [skillPath |-> "skill", error |-> walk.threw, filesScanned |-> 0,
          findings  |-> <<>>]
    ELSE [skillPath |-> "skill", filesScanned |-> Len(walk.files),
          findings  |-> walk.findings]

\* export async function analyzeSkill(skillPath)
analyzeSkill(root) == analyzeResult(readDirRecursive(root, <<>>, EmptyWalk))

---------------------------------------------------------------------------
(* cli.js: how the report reads a finding *)

\* `allowlisted: f.allowlisted || false`
allowlistedOf(f) == IF "allowlisted" \in DOMAIN f THEN f.allowlisted ELSE FALSE

\* `context: f.context || null`; null is None
contextOf(f) ==
    IF "context" \in DOMAIN f /\ f.context # "" THEN f.context ELSE None

---------------------------------------------------------------------------
(* report.js: generateStatistics *)

\* a plausible slip: the quotient is truncated
MathRoundDown(num, den) == num \div den

\* Math.round(num / den) for num >= 0 and den > 0: the nearest integer, a
\* half going up
MathRound(num, den) == (2 * num + den) \div (2 * den)

\* `if (result.error)`: the result carries a non-empty error message
hasError(result) == "error" \in DOMAIN result /\ result.error # ""

\* how many results without an error carry the grade g
RECURSIVE gradeCount(_, _)
gradeCount(rs, g) ==
    IF rs = <<>> THEN 0
    ELSE (IF ~hasError(Head(rs)) /\ Head(rs).grade = g THEN 1 ELSE 0)
         + gradeCount(Tail(rs), g)

\* the loop `for (const result of results)`: skillsScanned, skillsWithErrors
\* and totalScore after the results rs
RECURSIVE accumulate(_, _)
accumulate(rs, acc) ==
    IF rs = <<>> THEN acc
    ELSE IF hasError(Head(rs))
         THEN accumulate(Tail(rs), [acc EXCEPT !.skillsWithErrors = @ + 1])
         ELSE accumulate(Tail(rs), [acc EXCEPT !.skillsScanned = @ + 1,
                                               !.totalScore = @ + Head(rs).score])

\* export function generateStatistics(results): the counts, the score
\* distribution and the average score of the returned object
generateStatistics(rs) ==
    LET acc == accumulate(rs, [skillsScanned |-> 0, skillsWithErrors |-> 0,
                               totalScore |-> 0])
    IN  [totalSkills       |-> Len(rs),
         skillsScanned     |-> acc.skillsScanned,
         skillsWithErrors  |-> acc.skillsWithErrors,
         scoreDistribution |-> [g \in {"A", "B", "C", "D", "F"} |-> gradeCount(rs, g)],
         averageScore      |-> IF acc.skillsScanned > 0
                               THEN MathRound(acc.totalScore, acc.skillsScanned)
                               ELSE 0]

---------------------------------------------------------------------------
(* The scanned inputs *)

\* relative paths: evil.py, SKILL.md, docs/run.sh, LICENSE, Makefile
Paths ==
    { << <<"evil", "py">> >>,
      << <<"SKILL", "md">> >>,
      << <<"docs">>, <<"run", "sh">> >>,
      << <<"LICENSE">> >>,
      << <<"Makefile">> >> }

\* the lines a content is made of
CatalogLines ==
    { <<"Does", "nothing.">>,
      <<"subprocess.run(", "git", ")">>,
      <<"    ", "subprocess.run(", "./payload", ")">>,
      <<"subprocess.run(", "legit", ")">>,
      <<"child_process", "subprocess.run(", "git", ")">>,
      <<"process.env.API_KEY", "getenv('API_TOKEN", "')">>,
      <<"eval(input", ")">>,
      <<"axios.post(", "api.github.com", ")">> }

\* lines.join('\n')
RECURSIVE joinLines(_)
joinLines(ls) ==
    IF ls = <<>> THEN <<>>
    ELSE IF Len(ls) = 1 THEN ls[1]
    ELSE ls[1] \o <<NL>> \o joinLines(Tail(ls))

\* every content of at most MaxLines catalog lines
Contents == {joinLines(ls) : ls \in SeqsUpTo(CatalogLines, MaxLines)}

\* relative paths of the severity scenarios: setup.sh, SKILL.md, docs/run.sh,
\* Makefile
SeverityPaths ==
    { << <<"setup", "sh">> >>,
      << <<"SKILL", "md">> >>,
      << <<"docs">>, <<"run", "sh">> >>,
      << <<"Makefile">> >> }

\* the lines of the severity scenarios
SeverityLines ==
    { <<"Does", "nothing.">>,
      <<"curl http://x | bash">>,
      <<"npm install", "some-pkg">>,
      <<"opens", "a", "reverse-shell">>,
      <<"find", "setuid", "binaries">> }

\* every content of at most MaxLines such lines
SeverityContents == {joinLines(ls) : ls \in SeqsUpTo(SeverityLines, MaxLines)}

\* the directories a classified path may lie in: the root, docs/, src/,
\* src/examples/, Docs/, my.docs/
ClassifyDirs ==
    { <<>>,
      << <<"docs">> >>,
      << <<"src">> >>,
      << <<"src">>, <<"examples">> >>,
      << <<"Docs">> >>,
      << <<"my", "docs">> >> }

\* the file names of the classified paths: a stem alone, or a stem and an
\* extension
ClassifyNames ==
    LET stems == {"run", "README", "LICENSE", "Changelog", "todo", "docs"}
        exts  == {"md", "MD", "txt", "js", "sh", "bin"}
    IN  {<<st>> : st \in stems} \cup {<<st, e>> : st \in stems, e \in exts}

\* the relative paths handed to isDocFile and isCodeFile
ClassifyPaths == {d \o <<n>> : d \in ClassifyDirs, n \in ClassifyNames}

\* a readable file with a content, a file whose read throws, a directory
File(name, text) == [name |-> name, kind |-> "file", status |-> "ok", content |-> text]
BadFile(name, code) == [name |-> name, kind |-> "file", status |-> code, content |-> <<>>]
Dir(name, status, entries) ==
    [name |-> name, kind |-> "dir", status |-> status, entries |-> entries]

\* a harmless content and two that hold a CRITICAL match in any file
CleanText == <<"Does", "nothing.">>
ShellText == <<"opens", "a", "reverse-shell">>
CurlText  == <<"curl http://x | bash">>

\* what the subdirectory scripts/ may hold: run.sh, notes.md, yarn.lock,
\* secret.bin (unreadable), .git/hooks/pre-commit, locked/ (unlistable)
SubEntries ==
    << File(<<"run", "sh">>, CurlText \o <<NL>> \o ShellText),
       File(<<"notes", "md">>, CleanText),
       File(<<"yarn", "lock">>, ShellText),
       BadFile(<<"secret", "bin">>, "EACCES"),
       Dir(<<"", "git">>, "ok",
           << Dir(<<"hooks">>, "ok", << File(<<"pre-commit">>, ShellText) >>) >>),
       Dir(<<"locked">>, "EACCES", <<>>) >>

\* what the skill directory may hold next to scripts/
RootEntries ==
    << File(<<"SKILL", "md">>, CleanText),
       File(<<"setup", "sh">>, CurlText),
       File(<<"package-lock", "json">>, ShellText),
       File(<<"yarn", "lock">>, ShellText),
       File(<<"pnpm-lock", "yaml">>, ShellText),
       File(<<"metadata", "json">>, ShellText),
       BadFile(<<"secret", "bin">>, "EACCES"),
       BadFile(<<"raced">>, "EISDIR"),
       [name |-> <<"link">>, kind |-> "other"],
       Dir(<<"", "git">>, "ok",
           << Dir(<<"hooks">>, "ok", << File(<<"pre-commit">>, ShellText) >>) >>),
       Dir(<<"node_modules">>, "ok", << File(<<"index", "js">>, ShellText) >>),
       Dir(<<"", "svn">>, "ok", << File(<<"entries">>, ShellText) >>),
       Dir(<<"locked">>, "EACCES", <<>>) >>

\* the entries of catalog whose index is in S, in catalog order
RECURSIVE pickFrom(_, _, _)
pickFrom(catalog, S, i) ==
    IF i > Len(catalog) THEN <<>>
    ELSE (IF i \in S THEN <<catalog[i]>> ELSE <<>>) \o pickFrom(catalog, S, i + 1)

\* every listing of at most MaxEntries entries of catalog
Listings(catalog) ==
    {pickFrom(catalog, S, 1) :
        S \in {T \in SUBSET (1..Len(catalog)) : Cardinality(T) <= MaxEntries}}

\* the skill directories scanned: a listing of root entries, alone or
\* followed by a scripts/ directory; and a root that is missing or unreadable
SkillDirs ==
    {Dir(<<"skill">>, "ok", l) : l \in Listings(RootEntries)}
    \cup {Dir(<<"skill">>, "ok", Append(l, Dir(<<"scripts">>, "ok", sub))) :
              l \in Listings(RootEntries), sub \in Listings(SubEntries)}
    \cup {Dir(<<"skill">>, code, <<>>) : code \in {"ENOENT", "EACCES"}}

\* relative paths of the matching scenarios: evil.py, SKILL.md, Makefile
MatchPaths ==
    { << <<"evil", "py">> >>,
      << <<"SKILL", "md">> >>,
      << <<"Makefile">> >> }

\* the lines of the matching scenarios; the last is 4 + 13 + 1 + 96 + 1 + 4
\* characters long with blanks at both ends
MatchLines ==
    { <<"Does", "nothing.">>,
      <<"curl -H 'Authorization", "Bearer", "x'", "host">>,
      <<"axios.post(", "host", ")">>,
      <<"atob(payload) eval">>,
      <<"    ", "child_process", LongWord, "    ">> }

\* every content of at most MaxLines such lines
MatchContents == {joinLines(ls) : ls \in SeqsUpTo(MatchLines, MaxLines)}

\* the scores of the results handed to generateStatistics: scores
\* calculateScore can return (100 less multiples of 5, not below 0)
ResultScores == {0, 55, 70, 85, 95, 100}

\* scoreAnalysis of a scan without an error, and of the error result of
\* analyzeSkill (no finding, so 100 / A)
ScoredResults ==
    {[score |-> sc, grade |-> getGrade(sc)] : sc \in ResultScores}
    \cup {[error |-> "ENOENT", score |-> StartScore, grade |-> getGrade(StartScore)]}

\* the severities a finding handed to calculateScore may carry: the four
\* names and one that is none of them
InputSeverities == Range(SeverityNames) \cup {"INFO"}

\* scoreResult before calculateScore has run
NoResult == [score |-> StartScore, grade |-> None]

---------------------------------------------------------------------------
(* Spec: one file is analysed, then its findings are scored *)

Init ==
    /\ filename \in Paths
    /\ content \in Contents
    /\ pc = "read"
    /\ findings = <<>>
    /\ scoreResult = NoResult
    /\ gradeIn = 0
    /\ gradeOut = None
    /\ fileClass = None
    /\ skillDir = None
    /\ analysis = None
    /\ files = <<>>
    /\ consoleErrors = <<>>
    /\ previous = None
    /\ results = <<>>
    /\ stats = None

\* analyzeSkill: `const fileFindings = analyzeFile(relativePath, content);
\* findings.push(...fileFindings)`
AnalyzeFile ==
    /\ pc = "read"
    /\ findings' = findings \o analyzeFile(filename, content)
    /\ pc' = "analyzed"
    /\ UNCHANGED <<filename, content, scoreResult, gradeIn, gradeOut, fileClass, skillDir, analysis,
                   files, consoleErrors, previous,
                   results, stats>>

\* scoreAnalysis: calculateScore(analysis.findings || [])
ScoreAnalysis ==
    /\ pc = "analyzed"
    /\ scoreResult' = calculateScore(findings)
    /\ pc' = "scored"
    /\ UNCHANGED <<filename, content, findings, gradeIn, gradeOut, fileClass, skillDir, analysis,
                   files, consoleErrors, previous,
                   results, stats>>

Next == AnalyzeFile \/ ScoreAnalysis

Spec == Init /\ [][Next]_vars

---------------------------------------------------------------------------
(* SpecScore: calculateScore on finding lists of any mix of severities *)

InitScore ==
    /\ filename = <<>>
    /\ content = <<>>
    /\ pc = "score"
    /\ findings = <<>>
    /\ scoreResult = calculateScore(<<>>)
    /\ gradeIn = 0
    /\ gradeOut = None
    /\ fileClass = None
    /\ skillDir = None
    /\ analysis = None
    /\ files = <<>>
    /\ consoleErrors = <<>>
    /\ previous = None
    /\ results = <<>>
    /\ stats = None

\* one more finding in the list, and the list scored again
ScoreFindings ==
    /\ pc = "score"
    /\ Len(findings) < MaxFindings
    /\ \E sev \in InputSeverities :
          findings' = Append(findings, [severity |-> sev, patternId |-> "test"])
    /\ scoreResult' = calculateScore(findings')
    /\ UNCHANGED <<filename, content, pc, gradeIn, gradeOut, fileClass, skillDir, analysis,
                   files, consoleErrors, previous,
                   results, stats>>

NextScore == ScoreFindings

SpecScore == InitScore /\ [][NextScore]_vars

---------------------------------------------------------------------------
(* SpecGrade: getGrade on every integer score *)

InitGrade ==
    /\ filename = <<>>
    /\ content = <<>>
    /\ pc = "grade"
    /\ findings = <<>>
    /\ scoreResult = NoResult
    /\ gradeIn \in 0..StartScore
    /\ gradeOut = None
    /\ fileClass = None
    /\ skillDir = None
    /\ analysis = None
    /\ files = <<>>
    /\ consoleErrors = <<>>
    /\ previous = None
    /\ results = <<>>
    /\ stats = None

GetGrade ==
    /\ pc = "grade"
    /\ gradeOut = None
    /\ gradeOut' = getGrade(gradeIn)
    /\ UNCHANGED <<filename, content, pc, findings, scoreResult, gradeIn, fileClass, skillDir, analysis,
                   files, consoleErrors, previous,
                   results, stats>>

NextGrade == GetGrade

SpecGrade == InitGrade /\ [][NextGrade]_vars

---------------------------------------------------------------------------
(* SpecSeverity: Spec on the files of the severity scenarios *)

InitSeverity ==
    /\ filename \in SeverityPaths
    /\ content \in SeverityContents
    /\ pc = "read"
    /\ findings = <<>>
    /\ scoreResult = NoResult
    /\ gradeIn = 0
    /\ gradeOut = None
    /\ fileClass = None
    /\ skillDir = None
    /\ analysis = None
    /\ files = <<>>
    /\ consoleErrors = <<>>
    /\ previous = None
    /\ results = <<>>
    /\ stats = None

SpecSeverity == InitSeverity /\ [][Next]_vars

---------------------------------------------------------------------------
(* SpecMatch: Spec on the files of the matching scenarios *)

InitMatch ==
    /\ filename \in MatchPaths
    /\ content \in MatchContents
    /\ pc = "read"
    /\ findings = <<>>
    /\ scoreResult = NoResult
    /\ gradeIn = 0
    /\ gradeOut = None
    /\ fileClass = None
    /\ skillDir = None
    /\ analysis = None
    /\ files = <<>>
    /\ consoleErrors = <<>>
    /\ previous = None
    /\ results = <<>>
    /\ stats = None

SpecMatch == InitMatch /\ [][Next]_vars

---------------------------------------------------------------------------
(* SpecStats: generateStatistics on growing lists of scored results *)

InitStats ==
    /\ results = <<>>
    /\ stats = generateStatistics(<<>>)
    /\ filename = <<>>
    /\ content = <<>>
    /\ pc = "stats"
    /\ findings = <<>>
    /\ scoreResult = NoResult
    /\ gradeIn = 0
    /\ gradeOut = None
    /\ fileClass = None
    /\ skillDir = None
    /\ analysis = None
    /\ files = <<>>
    /\ consoleErrors = <<>>
    /\ previous = None

\* one more scored result in the list, and the statistics generated again
GenerateStatistics ==
    /\ pc = "stats"
    /\ Len(results) < MaxResults
    /\ \E r \in ScoredResults : results' = Append(results, r)
    /\ stats' = generateStatistics(results')
    /\ UNCHANGED <<filename, content, pc, findings, scoreResult, gradeIn, gradeOut,
                   fileClass, skillDir, analysis, files, consoleErrors, previous>>

NextStats == GenerateStatistics

SpecStats == InitStats /\ [][NextStats]_vars

---------------------------------------------------------------------------
(* SpecClassify: isDocFile and isCodeFile on one relative path *)

InitClassify ==
    /\ filename \in ClassifyPaths
    /\ content = <<>>
    /\ pc = "classify"
    /\ findings = <<>>
    /\ scoreResult = NoResult
    /\ gradeIn = 0
    /\ gradeOut = None
    /\ fileClass = None
    /\ skillDir = None
    /\ analysis = None
    /\ files = <<>>
    /\ consoleErrors = <<>>
    /\ previous = None
    /\ results = <<>>
    /\ stats = None

\* both exported predicates are asked about the path
Classify ==
    /\ pc = "classify"
    /\ fileClass' = [isDoc |-> isDocFile(filename), isCode |-> isCodeFile(filename)]
    /\ pc' = "classified"
    /\ UNCHANGED <<filename, content, findings, scoreResult, gradeIn, gradeOut,
                   skillDir, analysis,
                   files, consoleErrors, previous,
                   results, stats>>

NextClassify == Classify

SpecClassify == InitClassify /\ [][NextClassify]_vars

---------------------------------------------------------------------------
(* SpecWalk: a skill directory is scanned, then its findings are scored *)

InitWalk ==
    /\ skillDir \in SkillDirs
    /\ filename = <<>>
    /\ content = <<>>
    /\ pc = "walk"
    /\ findings = <<>>
    /\ scoreResult = NoResult
    /\ gradeIn = 0
    /\ gradeOut = None
    /\ fileClass = None
    /\ analysis = None
    /\ files = <<>>
    /\ consoleErrors = <<>>
    /\ previous = None
    /\ results = <<>>
    /\ stats = None

\* analyzeSkill(skillPath) runs to its return; the caller keeps its findings
AnalyzeSkill ==
    /\ pc = "walk"
    /\ LET walk == readDirRecursive(skillDir, <<>>, EmptyWalk)
       IN  /\ files' = walk.files
           /\ consoleErrors' = walk.consoleErrors
           /\ analysis' = analyzeResult(walk)
    /\ findings' = analysis'.findings
    /\ pc' = "analyzed"
    /\ UNCHANGED <<filename, content, scoreResult, gradeIn, gradeOut, fileClass,
                   skillDir, previous,
                   results, stats>>

NextWalk == AnalyzeSkill \/ ScoreAnalysis

SpecWalk == InitWalk /\ [][NextWalk]_vars

---------------------------------------------------------------------------
(* SpecRescan: SpecWalk, and the same skill directory scanned a second time *)

\* scanSkill called again: analyzeSkill, then scoreAnalysis; what the first
\* call returned is kept for comparison
Rescan ==
    /\ pc = "scored"
    /\ previous' = [findings |-> findings, scoreResult |-> scoreResult,
                    filesScanned |-> analysis.filesScanned]
    /\ LET walk == readDirRecursive(skillDir, <<>>, EmptyWalk)
       IN  /\ files' = walk.files
           /\ consoleErrors' = walk.consoleErrors
           /\ analysis' = analyzeResult(walk)
    /\ findings' = analysis'.findings
    /\ scoreResult' = calculateScore(findings')
    /\ pc' = "rescanned"
    /\ UNCHANGED <<filename, content, gradeIn, gradeOut, fileClass, skillDir,
                   results, stats>>

NextRescan == AnalyzeSkill \/ ScoreAnalysis \/ Rescan

SpecRescan == InitWalk /\ [][NextRescan]_vars

---------------------------------------------------------------------------
(* Properties of the scorer *)

\* how many findings of the scored list carry severity sev
NumWith(sev) == Cardinality({i \in 1..Len(findings) : findings[i].severity = sev})

\* the grades from worst to best
GradeRank(g) ==
    CASE g = "F" -> 0 [] g = "D" -> 1 [] g = "C" -> 2 [] g = "B" -> 3 [] g = "A" -> 4

\* C1: for every list of findings, of any length and any mix of severities,
\* calculateScore returns a score with 0 <= score <= 100.
ScoreWithinBounds == scoreResult.score >= 0 /\ scoreResult.score <= 100

\* C1 witness: a list whose deductions exceed 100 has been scored, at 0.
ScoreFlooredAtZero ==
    /\ pc = "score"
    /\ 30 * NumWith("CRITICAL") + 15 * NumWith("HIGH") + 5 * NumWith("MEDIUM") > 100
    /\ scoreResult.score = 0

\* C2: score = max(0, 100 - (30*c + 15*h + 5*m + 0*l)) with c, h, m, l the
\* numbers of CRITICAL, HIGH, MEDIUM, LOW findings; the empty list scores
\* exactly 100 with grade A.
ScoreIsWeightedSum ==
    pc = "score" =>
        /\ scoreResult.score =
               Max(0, 100 - (30 * NumWith("CRITICAL") + 15 * NumWith("HIGH")
                             + 5 * NumWith("MEDIUM") + 0 * NumWith("LOW")))
        /\ (findings = <<>> => scoreResult.score = 100 /\ scoreResult.grade = "A")

\* C2 witness: one finding of each of the four severities has been scored, at 50.
ScoreOfOneOfEach ==
    /\ pc = "score"
    /\ \A sev \in {"CRITICAL", "HIGH", "MEDIUM", "LOW"} : NumWith(sev) = 1
    /\ scoreResult.score = 50

\* C3: adding a finding to a list never raises the score and never improves
\* the grade.
ScoreNeverImproves ==
    [][ /\ scoreResult'.score <= scoreResult.score
        /\ GradeRank(scoreResult'.grade) <= GradeRank(scoreResult.grade) ]_vars

\* C3 witness: a finding was added to a list that already had one, and the
\* score and the grade went down.
ScoreWentDown ==
    /\ pc = "score"
    /\ Len(findings) = 2
    /\ findings[1].severity = "MEDIUM" /\ findings[2].severity = "HIGH"
    /\ scoreResult.score = 80 /\ scoreResult.grade = "B"

\* C4: the grade is a step function of the score alone: A for 90..100,
\* B for 80..89, C for 70..79, D for 60..69, F for 0..59.
GradeIsStepFunction ==
    gradeOut # None =>
        /\ (gradeIn >= 90 => gradeOut = "A")
        /\ (gradeIn >= 80 /\ gradeIn <= 89 => gradeOut = "B")
        /\ (gradeIn >= 70 /\ gradeIn <= 79 => gradeOut = "C")
        /\ (gradeIn >= 60 /\ gradeIn <= 69 => gradeOut = "D")
        /\ (gradeIn <= 59 => gradeOut = "F")

\* C4 witness: getGrade has graded the score 89, one below a threshold, as B.
GradedEightyNine == gradeIn = 89 /\ gradeOut = "B"

---------------------------------------------------------------------------
(* Properties of analyzeFile *)

\* the signature a finding was produced by
PatternOf(f) == CHOOSE p \in Range(PATTERNS) : p.id = f.patternId

\* how many findings of the analysed file the signature id produced
NumFindingsOf(id) ==
    Cardinality({i \in 1..Len(findings) : findings[i].patternId = id})

\* how many times the fragment frag occurs in the analysed content
Occurrences(frag) == Cardinality({i \in 1..Len(content) : content[i] = frag})

\* the line of the analysed content a finding points at
MatchedLine(f) == splitLines(content)[f.line]

\* the line holds a known-safe binary or domain as a whole token
HasSafeToken(line) ==
    \E i \in 1..Len(line) : line[i] \in KNOWN_SAFE_BINARIES \cup KNOWN_SAFE_DOMAINS

\* the severity of a finding before allowlisting: the signature's
\* docSeverityOverride in a documentation file, else its base severity
BaseSeverity(f) ==
    IF isDocFile(f.file) /\ PatternOf(f).docSeverityOverride # None
    THEN PatternOf(f).docSeverityOverride
    ELSE PatternOf(f).severity

\* one step down the scale CRITICAL > HIGH > MEDIUM > LOW
OneStepBelow(sev) ==
    CASE sev = "CRITICAL" -> "HIGH"
      [] sev = "HIGH"     -> "MEDIUM"
      [] sev = "MEDIUM"   -> "LOW"
      [] sev = "LOW"      -> "LOW"

\* the (signature, file, line) triples of a finding list
FindingKeys(fs) == {<<fs[i].patternId, fs[i].file, fs[i].line>> : i \in 1..Len(fs)}

\* the content with every known-safe binary or domain replaced by a name
\* that is on no allowlist
RECURSIVE WithoutSafeTokens(_)
WithoutSafeTokens(c) ==
    IF c = <<>> THEN <<>>
    ELSE <<IF Head(c) \in KNOWN_SAFE_BINARIES \cup KNOWN_SAFE_DOMAINS
           THEN "./payload" ELSE Head(c)>> \o WithoutSafeTokens(Tail(c))

\* C5: a codeOnly signature never produces a finding, at any severity, in a
\* file classified as documentation, whatever the content.
CodeOnlySilentInDocs ==
    (pc # "read" /\ isDocFile(filename)) =>
        \A i \in 1..Len(findings) : ~PatternOf(findings[i]).codeOnly

\* C5 witness: a documentation file whose content matches the codeOnly
\* signature eval-dangerous was analysed; other signatures reported, it did not.
CodeOnlySkippedInDoc ==
    /\ pc = "analyzed"
    /\ isDocFile(filename)
    /\ Occurrences("eval(input") >= 1
    /\ NumFindingsOf("eval-dangerous") = 0
    /\ NumFindingsOf("shell-exec") >= 1

\* C6: a signature flagged dedup produces at most one finding per file,
\* however many times and through however many expressions it matches.
DedupAtMostOnePerFile ==
    pc # "read" =>
        \A p \in Range(PATTERNS) : p.dedup => NumFindingsOf(p.id) <= 1

\* C6 witness: a content matched twice by each of two expressions of the
\* dedup signature credential-reference was analysed, with one finding.
DedupKeptOne ==
    /\ pc = "analyzed"
    /\ Occurrences("process.env.API_KEY") >= 2
    /\ Occurrences("getenv('API_TOKEN") >= 2
    /\ NumFindingsOf("credential-reference") = 1

\* C7: per file and signature there are at most 3 findings, counted across
\* all of the signature's expressions together.
AtMostThreePerSignature ==
    pc # "read" =>
        \A p \in Range(PATTERNS) : NumFindingsOf(p.id) <= 3

\* C7 witness: a content matched twice by each of two expressions of
\* shell-exec (four matches, no expression above 3) was analysed, with 3 findings.
CapKeptThree ==
    /\ pc = "analyzed"
    /\ Occurrences("child_process") = 2
    /\ Occurrences("subprocess.run(") = 2
    /\ NumFindingsOf("shell-exec") = 3

\* C8: a finding whose matched line is allowlisted (holds a known-safe
\* binary or domain) is reported exactly one step below its base effective
\* severity, LOW staying LOW.
AllowlistedOneStepBelow ==
    pc # "read" =>
        \A i \in 1..Len(findings) :
            HasSafeToken(MatchedLine(findings[i])) =>
                findings[i].severity = OneStepBelow(BaseSeverity(findings[i]))

\* C9: a finding is marked allowlisted exactly when its matched line holds a
\* member of the known-safe binary set or domain set as a whole token.
AllowlistedIffSafeToken ==
    pc # "read" =>
        \A i \in 1..Len(findings) :
            allowlistedOf(findings[i]) <=> HasSafeToken(MatchedLine(findings[i]))

\* C10: allowlisting never removes a finding: the (signature, file, line)
\* findings are those of the same content with its allowlist members
\* replaced by a name on no allowlist; and a match whose line holds no
\* allowlist member is emitted not allowlisted, at its base effective severity.
AllowlistNeverRemoves ==
    pc # "read" =>
        /\ FindingKeys(findings)
               = FindingKeys(analyzeFile(filename, WithoutSafeTokens(content)))
        /\ \A i \in 1..Len(findings) :
               ~HasSafeToken(MatchedLine(findings[i])) =>
                   /\ ~allowlistedOf(findings[i])
                   /\ findings[i].severity = BaseSeverity(findings[i])

\* C10 witness: a code file was analysed in which shell-exec matched on a
\* line naming git and on a line naming an unknown binary; both are
\* reported, the second not allowlisted and still MEDIUM.
UnknownBinaryStaysMedium ==
    /\ pc = "analyzed"
    /\ isCodeFile(filename) /\ ~isDocFile(filename)
    /\ \E i, j \in 1..Len(findings) :
          /\ findings[i].patternId = "shell-exec"
          /\ findings[j].patternId = "shell-exec"
          /\ "git" \in Range(MatchedLine(findings[i]))
          /\ "./payload" \in Range(MatchedLine(findings[j]))
          /\ ~allowlistedOf(findings[j])
          /\ findings[j].severity = "MEDIUM"

---------------------------------------------------------------------------
(* Properties of the severity resolution *)

\* every finding of the analysed file was produced by the signature id
OnlyFindingsOf(id) ==
    findings # <<>> /\ \A i \in 1..Len(findings) : findings[i].patternId = id

\* C11: the severity of a finding is the signature's docSeverityOverride when
\* the file is documentation and the signature declares one, and the
\* signature's base severity otherwise: reverse-shell (no override) is
\* CRITICAL in documentation too, and package-install in a documentation
\* file is LOW and deducts nothing.
OverrideInDocsElseBase ==
    pc # "read" =>
        /\ \A i \in 1..Len(findings) :
               LET f == findings[i]
                   p == PatternOf(f)
               IN  /\ f.severity = IF isDocFile(f.file) /\ p.docSeverityOverride # None
                                    THEN p.docSeverityOverride
                                    ELSE p.severity
                   /\ (f.patternId = "reverse-shell" => f.severity = "CRITICAL")
                   /\ (f.patternId = "package-install" /\ isDocFile(f.file)
                          => f.severity = "LOW")
        /\ (pc = "scored" /\ isDocFile(filename) /\ OnlyFindingsOf("package-install")
               => scoreResult.score = 100 /\ scoreResult.grade = "A")

\* C11 witness: a documentation file holding a reverse-shell line and an
\* `npm install` line was analysed: CRITICAL for the first, LOW for the second.
DocFileCriticalAndLow ==
    /\ pc = "analyzed"
    /\ isDocFile(filename)
    /\ \E i, j \in 1..Len(findings) :
          /\ findings[i].patternId = "reverse-shell"
          /\ findings[i].severity = "CRITICAL"
          /\ findings[j].patternId = "package-install"
          /\ findings[j].severity = "LOW"

\* C12: documentation override and allowlist softening compose in that
\* order: a finding in a documentation file whose signature declares a
\* docSeverityOverride and whose line holds an allowlist member is reported
\* one step below the override value (LOW when the override is LOW).
OverrideThenOneStepBelow ==
    pc # "read" =>
        \A i \in 1..Len(findings) :
            LET f == findings[i]
                p == PatternOf(f)
            IN  (/\ isDocFile(f.file)
                 /\ p.docSeverityOverride # None
                 /\ HasSafeToken(MatchedLine(f)))
                    => f.severity = OneStepBelow(p.docSeverityOverride)

---------------------------------------------------------------------------
(* Properties of the file classification *)

\* the class of the classified path: documentation is decided first
ClassOf ==
    IF fileClass.isDoc THEN "documentation"
    ELSE IF fileClass.isCode THEN "code"
    ELSE "neither"

\* the file name of the classified path, as its pieces between "."
BaseName == filename[Len(filename)]

\* the file name ends in "." and one of the extensions exts, in any case
HasExtensionIn(exts) ==
    Len(BaseName) >= 2 /\ ("." \o toLowerCase(BaseName[Len(BaseName)])) \in exts

\* some directory of the path is named like a documentation directory
InDocDirectory ==
    \E i \in 1..(Len(filename) - 1) :
        Len(filename[i]) = 1 /\ toLowerCase(filename[i][1]) \in DOC_DIRS

\* the file name without its extension, in lower case
StrippedBaseName ==
    IF Len(BaseName) >= 2
    THEN [i \in 1..(Len(BaseName) - 1) |-> toLowerCase(BaseName[i])]
    ELSE <<toLowerCase(BaseName[1])>>

ArtifactNameIsDocumentation ==
    pc = "classified" =>
        (StrippedBaseName \in {<<n>> : n \in DOC_BASENAMES}
            => ClassOf = "documentation")

---------------------------------------------------------------------------
(* Scenario: a skill whose only file is setup.sh *)

\* the scanned file is setup.sh and holds the one line `curl http://x | bash`
OnlySetupShPipingCurlToBash ==
    /\ filename = << <<"setup", "sh">> >>
    /\ content = <<"curl http://x | bash">>

\* the findings are one CRITICAL remote-code-download finding, not allowlisted
OneUnsoftenedRemoteCodeDownload ==
    /\ Len(findings) = 1
    /\ findings[1].patternId = "remote-code-download"
    /\ findings[1].severity = "CRITICAL"
    /\ ~allowlistedOf(findings[1])

\* C15 as stated: setup.sh (a code file) holding `curl http://x | bash`
\* yields one CRITICAL remote-code-download finding that the allowlist does
\* not soften, and the skill is graded F.
CurlPipeBashGradedF ==
    (pc = "scored" /\ OnlySetupShPipingCurlToBash) =>
        /\ isCodeFile(filename) /\ ~isDocFile(filename)
        /\ OneUnsoftenedRemoteCodeDownload
        /\ scoreResult.grade = "F"

\* C15 as the code has it: the same finding, and the skill scores
\* 100 - 30 = 70, which is grade C.
CurlPipeBashGradedC ==
    (pc = "scored" /\ OnlySetupShPipingCurlToBash) =>
        /\ isCodeFile(filename) /\ ~isDocFile(filename)
        /\ OneUnsoftenedRemoteCodeDownload
        /\ scoreResult.score = 70
        /\ scoreResult.grade = "C"

\* C15 witness: that skill has been analysed and scored.
SetupShScored ==
    /\ pc = "scored"
    /\ OnlySetupShPipingCurlToBash
    /\ scoreResult.totalFindings = 1
    /\ scoreResult.severityCounts.CRITICAL = 1

---------------------------------------------------------------------------
(* Properties of analyzeSkill *)

\* the names of the excluded directories and files
VcsAndDependencyDirs == {<<"", "git">>, <<"node_modules">>, <<"", "svn">>}
LockAndMetadataFiles ==
    {<<"package-lock", "json">>, <<"yarn", "lock">>, <<"pnpm-lock", "yaml">>,
     <<"metadata", "json">>}

\* the relative path lies in an excluded directory at some depth, or names
\* an excluded file
Excluded(path) ==
    \/ \E i \in 1..(Len(path) - 1) : path[i] \in VcsAndDependencyDirs
    \/ path[Len(path)] \in LockAndMetadataFiles

\* every file below the entries, with its relative path, whatever its status
RECURSIVE FilesBelow(_, _)
FilesBelow(entries, rel) ==
    UNION { LET e == entries[i]
            IN  IF e.kind = "file"
                THEN {[path |-> Append(rel, e.name), status |-> e.status,
                       content |-> e.content]}
                ELSE IF e.kind = "dir"
                THEN FilesBelow(e.entries, Append(rel, e.name))
                ELSE {}
          : i \in 1..Len(entries) }

\* every directory below the entries, with its relative path
RECURSIVE DirsBelow(_, _)
DirsBelow(entries, rel) ==
    UNION { LET e == entries[i]
            IN  IF e.kind = "dir"
                THEN {[path |-> Append(rel, e.name), status |-> e.status]}
                     \cup DirsBelow(e.entries, Append(rel, e.name))
                ELSE {}
          : i \in 1..Len(entries) }

\* the files of the skill that the scan is to cover
IncludedFiles == {f \in FilesBelow(skillDir.entries, <<>>) : ~Excluded(f.path)}

\* the included files whose read fails
UnreadableFiles == {f \in IncludedFiles : f.status # "ok"}

\* the subdirectories the walk has to list, and those of them it cannot
IncludedDirs ==
    {d \in DirsBelow(skillDir.entries, <<>>) :
        \A i \in 1..Len(d.path) : d.path[i] \notin VcsAndDependencyDirs}
UnlistableDirs == {d \in IncludedDirs : d.status # "ok"}

\* C16: no finding references a path inside .git, node_modules or .svn at
\* any depth, nor a lock file or metadata.json; such files are never read
\* and never counted in filesScanned.
ExcludedPathsNeverScanned ==
    pc # "walk" =>
        /\ \A i \in 1..Len(analysis.findings) : ~Excluded(analysis.findings[i].file)
        /\ \A i \in 1..Len(files) : ~Excluded(files[i])
        /\ \A i \in 1..Len(consoleErrors) : ~Excluded(consoleErrors[i])
        /\ analysis.filesScanned <= Cardinality({f \in IncludedFiles : f.status = "ok"})
        /\ ("error" \notin DOMAIN analysis =>
               analysis.filesScanned
                   = Cardinality({f \in IncludedFiles : f.status = "ok"}))

\* C16 witness: a skill with a readable file next to its excluded ones, and
\* scripts/.git/hooks/pre-commit two levels down, was scanned: one file
\* counted, no finding.
GitHookBelowScriptsSkipped ==
    /\ pc = "analyzed"
    /\ \E f \in FilesBelow(skillDir.entries, <<>>) :
          f.path = << <<"scripts">>, <<"", "git">>, <<"hooks">>, <<"pre-commit">> >>
    /\ \E f \in FilesBelow(skillDir.entries, <<>>) :
          f.path = << <<"node_modules">>, <<"index", "js">> >>
    /\ \E f \in FilesBelow(skillDir.entries, <<>>) : f.path = << <<"SKILL", "md">> >>
    /\ analysis.filesScanned = 1
    /\ analysis.findings = <<>>

\* C17: scanning a missing or unreadable root does not throw: analyzeSkill
\* returns a result with an error message, filesScanned = 0 and no finding,
\* which scores 100 / A.
RootFailureGivesErrorResult ==
    (pc # "walk" /\ skillDir.status # "ok") =>
        /\ "error" \in DOMAIN analysis
        /\ analysis.error \in {"ENOENT", "EACCES"}
        /\ analysis.filesScanned = 0
        /\ analysis.findings = <<>>
        /\ (pc = "scored" => scoreResult.score = 100 /\ scoreResult.grade = "A")

\* C17 witness: the scan of a missing root has returned and been scored.
MissingRootScored ==
    /\ pc = "scored"
    /\ skillDir.status = "ENOENT"
    /\ analysis.error = "ENOENT"
    /\ scoreResult.totalFindings = 0

\* the findings of the files of the skill that can be read
FindingsOfReadableFiles ==
    UNION {Range(analyzeFile(f.path, f.content)) :
              f \in {g \in IncludedFiles : g.status = "ok"}}

\* C18: a failure below the root never aborts the scan: when a file or a
\* subdirectory cannot be read, the findings of every readable file are
\* still returned and the result carries no error.
FailureBelowRootNeverAborts ==
    (pc # "walk" /\ skillDir.status = "ok") =>
        /\ "error" \notin DOMAIN analysis
        /\ Range(analysis.findings) = FindingsOfReadableFiles

\* the entries without the files whose read fails, at every depth
RECURSIVE withoutUnreadable(_)
withoutUnreadable(entries) ==
    IF entries = <<>> THEN <<>>
    ELSE LET e == Head(entries)
         IN  (IF e.kind = "file" /\ e.status # "ok" THEN <<>>
              ELSE IF e.kind = "dir"
                   THEN <<[e EXCEPT !.entries = withoutUnreadable(e.entries)]>>
              ELSE <<e>>) \o withoutUnreadable(Tail(entries))

\* C19: after a partial scan the result surfaces the number of files that
\* could not be read, so a scan that skipped unreadable files returns
\* another result than the scan of the same skill without those files.
SkippedCountSurfaced ==
    (pc # "walk" /\ "error" \notin DOMAIN analysis /\ UnreadableFiles # {}) =>
        analysis # analyzeSkill([skillDir EXCEPT !.entries = withoutUnreadable(@)])

---------------------------------------------------------------------------
(* Properties of the emitted findings *)

\* C20: every emitted finding, in code and documentation files alike,
\* carries a non-empty context annotation telling how its severity was
\* resolved.
EveryFindingHasContext ==
    pc # "read" =>
        \A i \in 1..Len(findings) : contextOf(findings[i]) # None

---------------------------------------------------------------------------
(* Properties of the allowlists *)

\* C21: the known-safe binary set does not hold `rm`, and the known-safe
\* domain set holds neither `localhost` nor `127.0.0.1`, at any point of a
\* scan.
DestructiveAndLocalNotKnownSafe ==
    /\ pc \in {"read", "analyzed", "scored"}
    /\ "rm" \notin KNOWN_SAFE_BINARIES
    /\ "localhost" \notin KNOWN_SAFE_DOMAINS
    /\ "127.0.0.1" \notin KNOWN_SAFE_DOMAINS

---------------------------------------------------------------------------
(* Properties over several scans and several files *)

---------------------------------------------------------------------------
(* Properties of the matcher *)

\* the signature with the given id
PatternById(id) == CHOOSE p \in Range(PATTERNS) : p.id = id

\* the signature id has at least one match in the analysed content
HasMatch(id) ==
    \E k \in 1..PatternById(id).nExpr : findMatches(content, id, k) # <<>>

\* C23: a finding of a signature that declares requiresCombination is
\* reported only when the companion signature has at least one match in the
\* same file.
CombinationRequired ==
    pc # "read" =>
        \A i \in 1..Len(findings) :
            LET p == PatternOf(findings[i])
            IN  p.requiresCombination # None => HasMatch(p.requiresCombination)

\* the analysed file is neither documentation nor of a code extension
NeitherDocNorCode == ~isDocFile(filename) /\ ~isCodeFile(filename)

\* the findings with their file field set to path
RECURSIVE InFile(_, _)
InFile(fs, path) ==
    IF fs = <<>> THEN <<>>
    ELSE <<[Head(fs) EXCEPT !.file = path]>> \o InFile(Tail(fs), path)

\* C24: a file that is neither documentation nor code is matched exactly
\* like a code file: codeOnly signatures are applied to it, and every
\* signature reports at its base severity, never at its docSeverityOverride.
NeitherMatchedLikeCode ==
    (pc # "read" /\ NeitherDocNorCode) =>
        /\ \A i \in 1..Len(findings) :
               findings[i].severity = PatternOf(findings[i]).severity
        /\ \A p \in Range(PATTERNS) :
               (p.codeOnly /\ HasMatch(p.id)) => NumFindingsOf(p.id) >= 1
        /\ InFile(findings, << <<"evil", "py">> >>)
               = analyzeFile(<< <<"evil", "py">> >>, content)

\* C24 witness: Makefile was analysed with a codeOnly match (eval-dangerous,
\* CRITICAL) and a match of a signature with an override (shell-exec, MEDIUM).
MakefileMatchedLikeCode ==
    /\ pc = "analyzed"
    /\ filename = << <<"Makefile">> >>
    /\ NeitherDocNorCode
    /\ \E i, j \in 1..Len(findings) :
          /\ findings[i].patternId = "eval-dangerous"
          /\ findings[i].severity = "CRITICAL"
          /\ findings[j].patternId = "shell-exec"
          /\ findings[j].severity = "MEDIUM"

---------------------------------------------------------------------------
(* Properties of the statistics *)

\* the positions of the results that carry no error
Scanned == {i \in 1..Len(results) : ~hasError(results[i])}

\* the sum of the scores of the results at the positions S
RECURSIVE SumOfScores(_)
SumOfScores(S) ==
    IF S = {} THEN 0
    ELSE LET i == CHOOSE j \in S : TRUE
         IN  results[i].score + SumOfScores(S \ {i})

\* C25: the average score is the sum of the scores of the results without
\* an error divided by their number, rounded to the nearest integer; it is 0
\* when there is no such result, and always lies in 0..100.
AverageIsRoundedMean ==
    LET n   == Cardinality(Scanned)
        sum == SumOfScores(Scanned)
        avg == stats.averageScore
    IN  /\ avg \in 0..100
        /\ (n = 0 => avg = 0)
        /\ (n > 0 => 2 * avg * n - n <= 2 * sum /\ 2 * sum <= 2 * avg * n + n)

\* C25 witness: three results, one with an error, whose mean 97.5 of the
\* other two is not an integer, were averaged to 98.
AveragedWithErrorResult ==
    /\ Len(results) = 3
    /\ Cardinality(Scanned) = 2
    /\ SumOfScores(Scanned) = 195
    /\ stats.averageScore = 98
    /\ stats.skillsWithErrors = 1

\* every match of the signature p in the analysed content: expression by
\* expression in declaration order, each from left to right
RECURSIVE MatchesInOrder(_, _)
MatchesInOrder(p, k) ==
    IF k > p.nExpr THEN <<>>
    ELSE findMatchesFrom(content, p.id, k, 1) \o MatchesInOrder(p, k + 1)

\* the findings of the signature id, in the order they were emitted
FindingsOf(id) == SelectSeq(findings, LAMBDA f : f.patternId = id)

\* the position of a signature in the library
LibraryIndex(id) == CHOOSE n \in 1..Len(PATTERNS) : PATTERNS[n].id = id

\* the most findings a signature may have in one file
CapOf(p) == IF p.dedup THEN 1 ELSE 3

\* C26: within one file the findings come by signature in library order,
\* then by expression in declaration order, then by increasing position; the
\* matches kept under the cap of 3 (1 for a dedup signature) are the first
\* in that order, not the earliest in the file.
FindingsInAcceptanceOrder ==
    pc # "read" =>
        /\ \A i, j \in 1..Len(findings) :
               i < j => LibraryIndex(findings[i].patternId)
                            <= LibraryIndex(findings[j].patternId)
        /\ \A p \in Range(PATTERNS) :
               LET all  == MatchesInOrder(p, 1)
                   kept == FindingsOf(p.id)
               IN  /\ Len(kept) <= CapOf(p)
                   /\ Len(kept) <= Len(all)
                   /\ (getEffectiveSeverity(p, filename) # None /\ Len(kept) < CapOf(p)
                         => Len(kept) = Len(all))
                   /\ \A n \in 1..Len(kept) :
                          /\ kept[n].matched = all[n].text
                          /\ kept[n].line = getLineNumber(content, all[n].index)

\* C26 witness: shell-exec matched by its second expression on line 1 and by
\* both expressions on two later lines; the three findings kept are lines
\* 2 and 3 of the first expression, then line 1 of the second, and the
\* second expression's matches on lines 2 and 3 are dropped.
LaterExpressionEarlierLine ==
    /\ pc = "analyzed"
    /\ Len(MatchesInOrder(PatternById("shell-exec"), 1)) = 5
    /\ LET kept == FindingsOf("shell-exec")
       IN  /\ Len(kept) = 3
           /\ kept[1].line = 2 /\ kept[1].matched = "child_process"
           /\ kept[2].line = 3 /\ kept[2].matched = "child_process"
           /\ kept[3].line = 1 /\ kept[3].matched = "subprocess.run("

\* C27: the same region of text is counted once per signature: one
\* occurrence never yields two findings of the same signature, even when
\* several expressions of the signature match it.
OccurrenceCountedOnce ==
    pc # "read" =>
        \A i, j \in 1..Len(findings) :
            (/\ findings[i].patternId = findings[j].patternId
             /\ findings[i].line = findings[j].line
             /\ findings[i].matched = findings[j].matched) => i = j

\* the content of the file of the skill at the relative path
ContentAt(path) ==
    (CHOOSE f \in FilesBelow(skillDir.entries, <<>>) : f.path = path).content

\* the findings of the files at paths[i..], each analysed on its own
RECURSIVE PerFileFindings(_, _)
PerFileFindings(paths, i) ==
    IF i > Len(paths) THEN <<>>
    ELSE analyzeFile(paths[i], ContentAt(paths[i])) \o PerFileFindings(paths, i + 1)

\* the entries in the opposite order, at every depth
RECURSIVE reversedEntries(_)
reversedEntries(entries) ==
    IF entries = <<>> THEN <<>>
    ELSE LET e == Head(entries)
         IN  reversedEntries(Tail(entries))
             \o <<IF e.kind = "dir"
                  THEN [e EXCEPT !.entries = reversedEntries(e.entries)]
                  ELSE e>>

\* C28: matching holds no state across files: the findings of a file depend
\* on its path and content only, the skill's finding list is the
\* concatenation of the per-file lists, and the score is the same when the
\* files are scanned in the opposite order.
NoStateAcrossFiles ==
    (pc # "walk" /\ "error" \notin DOMAIN analysis) =>
        /\ analysis.findings = PerFileFindings(files, 1)
        /\ (pc = "scored" =>
               LET other == analyzeSkill([skillDir EXCEPT
                                            !.entries = reversedEntries(@)])
               IN  /\ calculateScore(other.findings) = scoreResult
                   /\ other.filesScanned = analysis.filesScanned)

\* C28 witness: setup.sh and scripts/run.sh, both matched by
\* remote-code-download, were scanned and scored: three CRITICAL findings.
TwoFilesSameSignatureScored ==
    /\ pc = "scored"
    /\ files = << << <<"setup", "sh">> >>, << <<"scripts">>, <<"run", "sh">> >> >>
    /\ Len(findings) = 3
    /\ findings[1].patternId = "remote-code-download"
    /\ findings[2].patternId = "remote-code-download"
    /\ findings[3].patternId = "reverse-shell"
    /\ scoreResult.score = 10

\* how many newline characters lie before the 0-based position index
NewlinesBefore(index) == Cardinality({i \in 1..index : content[i] = NL})

\* the number of characters of fragments written with one space between them
RECURSIVE CharsOf(_)
CharsOf(line) ==
    IF line = <<>> THEN 0
    ELSE IF Len(line) = 1 THEN fragChars(line[1])
    ELSE fragChars(Head(line)) + 1 + CharsOf(Tail(line))

\* the line without the whitespace at its two ends
Stripped(line) ==
    LET inked == {i \in 1..Len(line) : line[i] \notin Blank}
    IN  IF inked = {} THEN <<>>
        ELSE SubSeq(line, CHOOSE i \in inked : \A j \in inked : i <= j,
                          CHOOSE i \in inked : \A j \in inked : i >= j)

\* sn is the text cut to exactly 100 characters: the fragments of the text
\* up to one that is shortened
CutToHundred(sn, text) ==
    /\ sn # <<>> /\ Len(sn) <= Len(text)
    /\ \A i \in 1..(Len(sn) - 1) : sn[i] = text[i]
    /\ fragChars(sn[Len(sn)]) < fragChars(text[Len(sn)])
    /\ CharsOf(sn) = 100

\* C29: a finding's line number is 1-indexed and is one plus the number of
\* newline characters before the start of its match; its snippet is that
\* line with the surrounding whitespace trimmed, cut to at most 100
\* characters.
LineNumberAndSnippet ==
    pc # "read" =>
        \A p \in Range(PATTERNS) :
            LET all  == MatchesInOrder(p, 1)
                kept == FindingsOf(p.id)
            IN  \A n \in 1..Len(kept) :
                    LET text == Stripped(splitLines(content)[kept[n].line])
                    IN  /\ kept[n].line >= 1
                        /\ kept[n].line = 1 + NewlinesBefore(all[n].index)
                        /\ CharsOf(kept[n].snippet) <= 100
                        /\ IF CharsOf(text) <= 100
                           THEN kept[n].snippet = text
                           ELSE CutToHundred(kept[n].snippet, text)

\* C29 witness: shell-exec matched on the third line, which is indented and
\* 110 characters long once trimmed; the snippet is its first 100 characters.
LongIndentedLineCut ==
    /\ pc = "analyzed"
    /\ \E i \in 1..Len(findings) :
          /\ findings[i].patternId = "shell-exec"
          /\ findings[i].line = 3
          /\ findings[i].snippet = <<"child_process", LongWordCut>>
          /\ CharsOf(Stripped(splitLines(content)[3])) = 110


---------------------------------------------------------------------------
(* C30: the severity counts and the deduction breakdown of a ScoreResult *)

\* severityCounts.CRITICAL + HIGH + MEDIUM + LOW of the current result
CountsSum ==
    scoreResult.severityCounts["CRITICAL"] + scoreResult.severityCounts["HIGH"]
        + scoreResult.severityCounts["MEDIUM"] + scoreResult.severityCounts["LOW"]

\* the total of one severity's entry in the breakdown, 0 when it has none
DeductionTotal(s) ==
    IF s \in DOMAIN scoreResult.deductions THEN scoreResult.deductions[s].total ELSE 0

DeductionsSum ==
    DeductionTotal("CRITICAL") + DeductionTotal("HIGH")
        + DeductionTotal("MEDIUM") + DeductionTotal("LOW")

\* the findings whose severity is one of the four names
OnScale == {i \in 1..Len(findings) : findings[i].severity \in Range(SeverityNames)}

===========================================================================
